---------------------------- MODULE Spec2Model ----------------------------
(***************************************************************************)
(* paper-summarizer: the section segmenter of PdfProcessor                 *)
(* (pdf_processor.py) and the summary aggregation of PaperSummarizer       *)
(* (summarizer.py).                                                        *)
(*                                                                         *)
(* A Python str is a sequence of one-character strings, so that strip,     *)
(* lower, isupper, split, join and the regular expressions are computed    *)
(* character by character as the interpreter computes them.  A dict is a   *)
(* sequence of <<key, value>> pairs in insertion order with unique keys.   *)
(***************************************************************************)
EXTENDS Integers, Sequences, FiniteSets, TLC

(***************************************************************************)
(* Characters and the str methods the code uses.                           *)
(***************************************************************************)
UpperChars ==
  <<"A", "B", "C", "D", "E", "F", "G", "H", "I", "J", "K", "L", "M",
    "N", "O", "P", "Q", "R", "S", "T", "U", "V", "W", "X", "Y", "Z">>

LowerChars ==
  <<"a", "b", "c", "d", "e", "f", "g", "h", "i", "j", "k", "l", "m",
    "n", "o", "p", "q", "r", "s", "t", "u", "v", "w", "x", "y", "z">>

UpperSet == {UpperChars[i] : i \in 1..26}

LowerSet == {LowerChars[i] : i \in 1..26}

\* \d
DigitSet == {"0", "1", "2", "3", "4", "5", "6", "7", "8", "9"}

\* \s, and the characters str.strip() removes
SpaceSet == {" ", "\t", "\n", "\r"}

\* [IVXivx]
RomanSet == {"I", "V", "X", "i", "v", "x"}

\* [A-Z]
CapitalSet == UpperSet

LowerMap == [c \in UpperSet |-> LowerChars[CHOOSE i \in 1..26 : UpperChars[i] = c]]

LowerChar(c) == IF c \in UpperSet THEN LowerMap[c] ELSE c

\* str.lower()
Lower(s) == [i \in 1..Len(s) |-> LowerChar(s[i])]

\* str.isupper(): at least one cased character and no lower-case one
IsUpper(s) ==
  /\ \E i \in 1..Len(s) : s[i] \in UpperSet
  /\ \A i \in 1..Len(s) : s[i] \notin LowerSet

\* str.strip()
Strip(s) ==
  LET keep == {i \in 1..Len(s) : s[i] \notin SpaceSet}
  IN  IF keep = {} THEN <<>>
      ELSE LET a == CHOOSE i \in keep : \A j \in keep : i <= j
               b == CHOOSE i \in keep : \A j \in keep : j <= i
           IN  SubSeq(s, a, b)

\* str.split('\n'): always at least one item
RECURSIVE SplitFrom(_, _, _)
SplitFrom(s, i, cur) ==
  IF i > Len(s) THEN <<cur>>
  ELSE IF s[i] = "\n" THEN <<cur>> \o SplitFrom(s, i + 1, <<>>)
  ELSE SplitFrom(s, i + 1, Append(cur, s[i]))

SplitLines(s) == SplitFrom(s, 1, <<>>)

\* "\n".join(parts)
RECURSIVE JoinLines(_)
JoinLines(parts) ==
  IF parts = <<>> THEN <<>>
  ELSE IF Len(parts) = 1 THEN parts[1]
  ELSE parts[1] \o <<"\n">> \o JoinLines(Tail(parts))

\* s[p:p+len(t)] == t, p a 0-based offset
OccursAt(s, p, t) ==
  /\ p + Len(t) <= Len(s)
  /\ \A k \in 1..Len(t) : s[p + k] = t[k]

\* t in s
Contains(s, t) == \E p \in 0..(Len(s) - Len(t)) : OccursAt(s, p, t)

(***************************************************************************)
(* Regular-expression pieces.  A position is a 0-based offset into s; a    *)
(* piece maps the set of offsets where the match may stand before it to    *)
(* the set where it may stand after it (all the backtracking choices).     *)
(***************************************************************************)
\* the largest q with s[p:q] made of characters of class C
RECURSIVE MaxRun(_, _, _)
MaxRun(s, p, C) ==
  IF p < Len(s) /\ s[p + 1] \in C THEN MaxRun(s, p + 1, C) ELSE p

\* C*
Star(s, P, C) == UNION {p..MaxRun(s, p, C) : p \in P}

\* C+
Plus(s, P, C) == UNION {(p + 1)..MaxRun(s, p, C) : p \in P}

\* \.?
OptDot(s, P) == P \cup {p + 1 : p \in {q \in P : q < Len(s) /\ s[q + 1] = "."}}

\* one character of class C
One(s, P, C) == {p + 1 : p \in {q \in P : q < Len(s) /\ s[q + 1] \in C}}

(***************************************************************************)
(* PdfProcessor.identify_sections: vocabulary and header detection.        *)
(***************************************************************************)
\* "experiments" "results" are adjacent literals: one token
common_sections ==
  << <<"a", "b", "s", "t", "r", "a", "c", "t">>,
     <<"i", "n", "t", "r", "o", "d", "u", "c", "t", "i", "o", "n">>,
     <<"b", "a", "c", "k", "g", "r", "o", "u", "n", "d">>,
     <<"m", "e", "t", "h", "o", "d", "o", "l", "o", "g", "y">>,
     <<"m", "e", "t", "h", "o", "d", "s">>,
     <<"e", "x", "p", "e", "r", "i", "m", "e", "n", "t", "a", "l", " ", "s", "e", "t", "u", "p">>,
     <<"e", "x", "p", "e", "r", "i", "m", "e", "n", "t">>,
     <<"e", "x", "p", "e", "r", "i", "m", "e", "n", "t", "s", "r", "e", "s", "u", "l", "t", "s">>,
     <<"d", "i", "s", "c", "u", "s", "s", "i", "o", "n">>,
     <<"c", "o", "n", "c", "l", "u", "s", "i", "o", "n">>,
     <<"c", "o", "n", "c", "l", "u", "s", "i", "o", "n", "s">>,
     <<"r", "e", "f", "e", "r", "e", "n", "c", "e", "s">>,
     <<"a", "c", "k", "n", "o", "w", "l", "e", "d", "g", "m", "e", "n", "t", "s">>,
     <<"r", "e", "l", "a", "t", "e", "d", " ", "w", "o", "r", "k">> >>

\* re.search found nothing (every token is non-empty)
NoMatch == <<>>

\* the first element of a non-empty set of numbers
Least(S) == CHOOSE x \in S : \A y \in S : x <= y

\* (?:\d+\.?\d*\s*|[IVXivx]+\.?\s*)? anchored at the line start: where the
\* vocabulary alternation may begin
PrefixEnds(s) ==
  Star(s, Star(s, OptDot(s, Plus(s, {0}, DigitSet)), DigitSet), SpaceSet)
    \cup Star(s, OptDot(s, Plus(s, {0}, RomanSet)), SpaceSet)
    \cup {0}

\* a variant without the colon alternative: only $
TerminatedAtEnd(s, q) ==
  \/ q = Len(s)
  \/ (q < Len(s) /\ s[q + 1] = "\n")

\* (?:\s*:|$) at offset q; with (?m) the $ also stands before a newline
Terminated(s, q) ==
  \/ \E r \in Star(s, {q}, SpaceSet) : r < Len(s) /\ s[r + 1] = ":"
  \/ q = Len(s)
  \/ (q < Len(s) /\ s[q + 1] = "\n")

\* the alternatives of ({}) that match at offset p and let the rest match;
\* low is s lower-cased (re.IGNORECASE)
PatternTokens(s, low, p) ==
  {k \in 1..Len(common_sections) :
     /\ OccursAt(low, p, common_sections[k])
     /\ Terminated(s, p + Len(common_sections[k]))}

\* re.search(section_pattern, s, re.IGNORECASE) and match.group(1).lower().
\* A token can begin at no more than one offset of PrefixEnds(s) (the prefix
\* characters begin no token but "introduction", whose second letter is no
\* prefix character), so the order in which the prefix is backtracked does
\* not change the group.
SectionPatternSearch(s) ==
  LET low == Lower(s)
      P == {p \in PrefixEnds(s) : PatternTokens(s, low, p) # {}}
  IN  IF P = {} THEN NoMatch
      ELSE common_sections[Least(PatternTokens(s, low, Least(P)))]

\* the tokens found at offset p of the lower-cased line
TokensAt(low, p) ==
  {k \in 1..Len(common_sections) : OccursAt(low, p, common_sections[k])}

\* a variant that takes the first token of the vocabulary found anywhere
VocabularySearchByOrder(line) ==
  LET low == Lower(line)
      K == {k \in 1..Len(common_sections) : Contains(low, common_sections[k])}
  IN  IF K = {} THEN NoMatch ELSE common_sections[Least(K)]

\* re.search(r"(?i)(tok|tok|...)", line) and match.group(1).lower(): the
\* leftmost offset where a token matches, the first alternative there
VocabularySearch(line) ==
  LET low == Lower(line)
      P == {p \in 0..Len(line) : TokensAt(low, p) # {}}
  IN  IF P = {} THEN NoMatch
      ELSE common_sections[Least(TokensAt(low, Least(P)))]

\* line.strip().isupper() and any(section in line.lower() ...)
AllCapsRule(line) ==
  /\ IsUpper(Strip(line))
  /\ LET low == Lower(line)
     IN  \E k \in 1..Len(common_sections) : Contains(low, common_sections[k])

\* lines 42-52: the new current_section if the line is a header, else NoMatch
HeaderMatch(line) ==
  LET m == SectionPatternSearch(Strip(line))
  IN  IF m # NoMatch THEN m
      ELSE IF AllCapsRule(line) THEN VocabularySearch(line)
      ELSE NoMatch

(***************************************************************************)
(* dict operations                                                         *)
(***************************************************************************)
DictKeys(d) == {d[i][1] : i \in 1..Len(d)}

DictGet(d, k) == d[CHOOSE i \in 1..Len(d) : d[i][1] = k][2]

\* d[k] = v
DictSet(d, k, v) ==
  IF k \in DictKeys(d)
  THEN [i \in 1..Len(d) |-> IF d[i][1] = k THEN <<k, v>> ELSE d[i]]
  ELSE Append(d, <<k, v>>)

\* the dict as a mapping: == on dicts ignores the insertion order
DictItems(d) == {d[i] : i \in 1..Len(d)}

(***************************************************************************)
(* The primary pass, lines 37-63.                                          *)
(***************************************************************************)
unknown == <<"u", "n", "k", "n", "o", "w", "n">>

\* a variant that stores the joined lines untrimmed
SectionBodyUntrimmed(content) == JoinLines(content)

\* "\n".join(current_content).strip()
SectionBody(content) == Strip(JoinLines(content))

\* if current_content: self.sections[current_section] = ...
SaveSection(sections, current_section, current_content) ==
  IF current_content # <<>>
  THEN DictSet(sections, current_section, SectionBody(current_content))
  ELSE sections

\* the for loop from line i on; st holds self.sections, current_section,
\* current_content and, per line seen, the header name matched (or NoMatch)
RECURSIVE PrimaryLoop(_, _, _)
PrimaryLoop(lines, i, st) ==
  IF i > Len(lines) THEN st
  ELSE LET m == HeaderMatch(lines[i])
       IN  IF m # NoMatch
           THEN PrimaryLoop(lines, i + 1,
                  [sections |-> SaveSection(st.sections, st.current_section,
                                            st.current_content),
                   current_section |-> m,
                   current_content |-> <<>>,
                   matched |-> Append(st.matched, m)])
           ELSE PrimaryLoop(lines, i + 1,
                  [st EXCEPT !.current_content = Append(@, lines[i]),
                             !.matched = Append(@, NoMatch)])

\* lines 37-63: self.sections after the loop and the last flush
PrimaryPass(full_text, sections) ==
  LET st == PrimaryLoop(SplitLines(full_text), 1,
              [sections |-> sections, current_section |-> unknown,
               current_content |-> <<>>, matched |-> <<>>])
  IN  [sections |-> SaveSection(st.sections, st.current_section,
                                st.current_content),
       matched |-> st.matched]

(***************************************************************************)
(* _try_alternative_section_detection, lines 71-104.                       *)
(***************************************************************************)
HeaderMaxLen == 100

FewSections == 2

\* re.match(r'^\d+\.?\s+[A-Z]', line)
NumberedHeader(line) ==
  One(line, Plus(line, OptDot(line, Plus(line, {0}, DigitSet)), SpaceSet),
      CapitalSet) # {}

\* re.match(r'^[IVXivx]+\.?\s+[A-Z]', line)
RomanHeader(line) ==
  One(line, Plus(line, OptDot(line, Plus(line, {0}, RomanSet)), SpaceSet),
      CapitalSet) # {}

\* lines 83-87, i a 1-based line number
IsPotentialSection(lines, i) ==
  LET line == Strip(lines[i])
  IN  /\ Len(line) < HeaderMaxLen
      /\ (IsUpper(line) \/ NumberedHeader(line) \/ RomanHeader(line))
      /\ (i >= Len(lines) \/ Strip(lines[i + 1]) = <<>>)

\* the line numbers of potential_sections, in order
PotentialSections(lines) ==
  SelectSeq([i \in 1..Len(lines) |-> i], LAMBDA i : IsPotentialSection(lines, i))

\* re.sub(r'^\d+\.?\s*|^[IVXivx]+\.?\s*', '', header.lower()): the first
\* alternative that matches at the start, each piece greedy
CleanHeader(header) ==
  LET h == Lower(header)
      skip(C) == LET a == MaxRun(h, 0, C)
                     b == IF a < Len(h) /\ h[a + 1] = "." THEN a + 1 ELSE a
                 IN  MaxRun(h, b, SpaceSet)
      cut == IF MaxRun(h, 0, DigitSet) > 0 THEN skip(DigitSet)
             ELSE IF MaxRun(h, 0, RomanSet) > 0 THEN skip(RomanSet)
             ELSE 0
  IN  SubSeq(h, cut + 1, Len(h))

\* lines 93-101: new_sections from the candidates idx.. on
RECURSIVE NewSections(_, _, _, _)
NewSections(lines, pot, idx, acc) ==
  IF idx > Len(pot) THEN acc
  ELSE LET next_line == IF idx + 1 <= Len(pot) THEN pot[idx + 1] ELSE Len(lines) + 1
           content == Strip(JoinLines(SubSeq(lines, pot[idx] + 1, next_line - 1)))
       IN  NewSections(lines, pot, idx + 1,
             DictSet(acc, CleanHeader(Strip(lines[pot[idx]])), content))

\* the map built by the fallback pass (empty without candidates)
FallbackSections(full_text) ==
  LET lines == SplitLines(full_text)
  IN  NewSections(lines, PotentialSections(lines), 1, <<>>)

\* a variant that also replaces on a tie
FallbackWinsOrTies(new_sections, sections) == Len(new_sections) >= Len(sections)

\* if len(new_sections) > len(self.sections)
FallbackWins(new_sections, sections) == Len(new_sections) > Len(sections)

\* self.sections after _try_alternative_section_detection
TryAlternative(full_text, sections) ==
  LET lines == SplitLines(full_text)
      potential_sections == PotentialSections(lines)
      new_sections == NewSections(lines, potential_sections, 1, <<>>)
  IN  IF potential_sections # <<>> /\ FallbackWins(new_sections, sections)
      THEN new_sections
      ELSE sections

\* if len(self.sections) <= 2
NeedsFallback(sections) == Len(sections) <= FewSections

\* identify_sections on a processor holding full_text and sections: the
\* sections it leaves (and returns) and the header names of its primary pass
IdentifySectionsOn(full_text, sections) ==
  LET prim == PrimaryPass(full_text, sections)
  IN  [sections |-> IF NeedsFallback(prim.sections)
                    THEN TryAlternative(full_text, prim.sections)
                    ELSE prim.sections,
       matched |-> prim.matched]

(***************************************************************************)
(* The documents: what reader.pages[k].extract_text() returns.             *)
(***************************************************************************)
MaxPages == 2

\* ''
PageEmpty == <<>>

\* 'Abstract'
PageAbstract == <<"A", "b", "s", "t", "r", "a", "c", "t">>

\* '2. Introduction\nbody'
PageIntro ==
  <<"2", ".", " ", "I", "n", "t", "r", "o", "d", "u", "c", "t", "i", "o", "n",
    "\n", "b", "o", "d", "y">>

\* '2. Introduction\n\nFOO\n'
PageIntroCaps ==
  <<"2", ".", " ", "I", "n", "t", "r", "o", "d", "u", "c", "t", "i", "o", "n",
    "\n", "\n", "F", "O", "O", "\n">>

\* '3. Methodology:\n\nmore'
PageMethodology ==
  <<"3", ".", " ", "M", "e", "t", "h", "o", "d", "o", "l", "o", "g", "y", ":",
    "\n", "\n", "m", "o", "r", "e">>

\* '1. Foo\n'
PageNumbered == <<"1", ".", " ", "F", "o", "o", "\n">>

\* 'IMPLEMENTATION\n'
PageCaps ==
  <<"I", "M", "P", "L", "E", "M", "E", "N", "T", "A", "T", "I", "O", "N", "\n">>

\* 'IV\n'
PageRoman == <<"I", "V", "\n">>

\* 'METHODS AND BACKGROUND\nx'
PageTwoTokens ==
  <<"M", "E", "T", "H", "O", "D", "S", " ", "A", "N", "D", " ",
    "B", "A", "C", "K", "G", "R", "O", "U", "N", "D", "\n", "x">>

\* 'EXPERIMENTS'
PageExperiments == <<"E", "X", "P", "E", "R", "I", "M", "E", "N", "T", "S">>

\* ' plain text '
PagePlain == <<" ", "p", "l", "a", "i", "n", " ", "t", "e", "x", "t", " ">>

PageTexts ==
  {PageEmpty, PageAbstract, PageIntro, PageIntroCaps, PageMethodology,
   PageNumbered, PageCaps, PageRoman, PageTwoTokens, PageExperiments, PagePlain}

Documents == UNION {[1..n -> PageTexts] : n \in 0..MaxPages}

(***************************************************************************)
(* PaperSummarizer: the inputs of generate_full_summary and the backend.   *)
(***************************************************************************)
MaxSections == 3

abstract == <<"a", "b", "s", "t", "r", "a", "c", "t">>

overview == <<"o", "v", "e", "r", "v", "i", "e", "w">>

\* line 53: ["unknown", "references", "acknowledgments"]
ExcludedNames ==
  {unknown,
   <<"r", "e", "f", "e", "r", "e", "n", "c", "e", "s">>,
   <<"a", "c", "k", "n", "o", "w", "l", "e", "d", "g", "m", "e", "n", "t", "s">>}

\* the section names a caller may pass, in the order the dict holds them
SectionNames ==
  << abstract,
     <<"m", "e", "t", "h", "o", "d", "s">>,
     <<"U", "n", "k", "n", "o", "w", "n">>,
     <<"r", "e", "f", "e", "r", "e", "n", "c", "e", "s">>,
     <<"A", "C", "K", "N", "O", "W", "L", "E", "D", "G", "M", "E", "N", "T", "S">>,
     overview >>

SectionTexts == {<<>>, <<"t">>}

InputSectionMaps ==
  {LET idx == SelectSeq([i \in 1..Len(SectionNames) |-> i], LAMBDA i : i \in S)
   IN  [i \in 1..Len(idx) |-> <<SectionNames[idx[i]], c[idx[i]]>>] :
     S \in {T \in SUBSET (1..Len(SectionNames)) : Cardinality(T) <= MaxSections},
     c \in [1..Len(SectionNames) -> SectionTexts]}

InputFullTexts == {<<>>, PagePlain}

\* what one request to the backend does: requests.post raises,
\* raise_for_status raises, response.json()["response"] raises, or the
\* response field holds a text (empty or not)
Failures == {"network_error", "bad_status", "malformed"}

BackendOutcomes == Failures \cup {"empty", "text"}

ResponseText == <<"s", "u", "m">>

OverviewChars == 1000

(***************************************************************************)
(* State.                                                                  *)
(***************************************************************************)
VARIABLES
  pages,      \* self.reader.pages: the text of each page
  full_text,  \* self.full_text
  sections,   \* self.sections
  ret,        \* what the last identify_sections call returned
  matched,    \* per line of that call: match.group(1).lower(), or NoMatch
  fresh,      \* that call found self.sections empty, as __init__ leaves it
  op,         \* the last PdfProcessor method called
  paper,      \* the paper_content passed to generate_full_summary
  summaries,  \* what that call returned
  section_arg,      \* <<section_text, section_name>> passed to summarize_section
  section_summary,  \* what that call returned
  calls,      \* the requests the last PaperSummarizer call sent, with their outcomes
  raised,     \* an exception left the last PaperSummarizer call
  sop         \* the last PaperSummarizer method called

procVars == <<pages, full_text, sections, ret, matched, fresh, op>>

sumVars == <<paper, summaries, section_arg, section_summary, calls, raised, sop>>

vars == <<procVars, sumVars>>

\* PdfProcessor.__init__ on a document
ProcInit ==
  /\ pages \in Documents
  /\ full_text = <<>>
  /\ sections = <<>>
  /\ ret = <<>>
  /\ matched = <<>>
  /\ fresh = FALSE
  /\ op = "init"

\* PaperSummarizer.__init__: no call made yet
SumInit ==
  /\ paper = [sections |-> <<>>, full_text |-> <<>>]
  /\ summaries = <<>>
  /\ section_arg = <<<<>>, <<>>>>
  /\ section_summary = <<>>
  /\ calls = <<>>
  /\ raised = FALSE
  /\ sop = "init"

(***************************************************************************)
(* PdfProcessor's methods.                                                 *)
(***************************************************************************)
\* extract_text's value: the non-empty page texts joined by newlines
ExtractedText(pp) == JoinLines(SelectSeq(pp, LAMBDA t : t # <<>>))

ExtractText ==
  /\ full_text' = ExtractedText(pages)
  /\ op' = "extract_text"
  /\ UNCHANGED <<pages, sections, ret, matched, fresh, sumVars>>

IdentifySections ==
  LET r == IdentifySectionsOn(full_text, sections)
  IN  /\ sections' = r.sections
      /\ ret' = r.sections
      /\ matched' = r.matched
      /\ fresh' = (sections = <<>>)
      /\ op' = "identify_sections"
      /\ UNCHANGED <<pages, full_text, sumVars>>

\* process: extract_text, then identify_sections; get_metadata reads only
\* the reader
Process ==
  LET text == ExtractedText(pages)
      r == IdentifySectionsOn(text, sections)
  IN  /\ full_text' = text
      /\ sections' = r.sections
      /\ ret' = r.sections
      /\ matched' = r.matched
      /\ fresh' = (sections = <<>>)
      /\ op' = "process"
      /\ UNCHANGED <<pages, sumVars>>

(***************************************************************************)
(* PaperSummarizer's methods.  A result is [raised, value, calls]: raised  *)
(* says that an exception left the method (no value is returned then),     *)
(* calls lists the requests sent so far with the outcome of each.  The     *)
(* backend may answer each request with any outcome, so a method has a set *)
(* of possible results.                                                    *)
(***************************************************************************)
\* a variant without the except clause: a failure leaves the method
GenerateSummaryUncaught(prompt, outcome, sent) ==
  [raised |-> outcome \in Failures,
   value |-> IF outcome = "text" THEN ResponseText ELSE <<>>,
   calls |-> Append(sent, [prompt |-> prompt, outcome |-> outcome])]

\* _generate_summary, lines 12-30, when the request ends in outcome: every
\* exception of the try block is caught
GenerateSummary(prompt, outcome, sent) ==
  [raised |-> FALSE,
   value |-> IF outcome = "text" THEN ResponseText ELSE <<>>,
   calls |-> Append(sent, [prompt |-> prompt, outcome |-> outcome])]

\* summarize_section, lines 32-45
SummarizeSection(section_text, section_name, sent) ==
  IF section_text = <<>>
  THEN {[raised |-> FALSE, value |-> <<>>, calls |-> sent]}
  ELSE {GenerateSummary([kind |-> "section", name |-> section_name,
                         text |-> section_text], outcome, sent) :
          outcome \in BackendOutcomes}

\* a variant that compares the name as given
IsEligibleCaseSensitive(section_name) == section_name \notin ExcludedNames

\* line 53: section_name.lower() not in [...]
IsEligible(section_name) == Lower(section_name) \notin ExcludedNames

\* lines 55-56: if summary: summaries[section_name] = summary
StoreSummary(sums, section_name, summary) ==
  IF summary # <<>> THEN DictSet(sums, section_name, summary) ELSE sums

\* one iteration of the for loop of lines 52-56, from the state acc
SectionStep(item, acc) ==
  IF acc.raised \/ ~IsEligible(item[1]) THEN {acc}
  ELSE {[raised |-> r.raised,
         value |-> IF r.raised THEN acc.value
                   ELSE StoreSummary(acc.value, item[1], r.value),
         calls |-> r.calls] :
          r \in SummarizeSection(item[2], item[1], acc.calls)}

\* the for loop from item i on
RECURSIVE SectionLoop(_, _, _)
SectionLoop(items, i, accs) ==
  IF i > Len(items) THEN accs
  ELSE SectionLoop(items, i + 1, UNION {SectionStep(items[i], acc) : acc \in accs})

\* lines 58-61
MainText(content) ==
  IF abstract \in DictKeys(content.sections)
  THEN DictGet(content.sections, abstract)
  ELSE SubSeq(content.full_text, 1,
              IF Len(content.full_text) < OverviewChars
              THEN Len(content.full_text) ELSE OverviewChars)

\* lines 63-72 after the loop ended in acc
OverviewStep(content, acc) ==
  IF acc.raised THEN {acc}
  ELSE {[raised |-> r.raised,
         value |-> IF r.raised THEN acc.value
                   ELSE DictSet(acc.value, overview, r.value),
         calls |-> r.calls] :
          r \in {GenerateSummary([kind |-> "overview", name |-> overview,
                                  text |-> MainText(content)], outcome, acc.calls) :
                   outcome \in BackendOutcomes}}

\* generate_full_summary, lines 47-72
GenerateFullSummaryOn(content) ==
  UNION {OverviewStep(content, acc) :
           acc \in SectionLoop(content.sections, 1,
                     {[raised |-> FALSE, value |-> <<>>, calls |-> <<>>]})}

GenerateFullSummary ==
  /\ sop = "init"
  /\ \E r \in GenerateFullSummaryOn(paper) :
       /\ summaries' = r.value
       /\ calls' = r.calls
       /\ raised' = r.raised
  /\ sop' = "generate_full_summary"
  /\ UNCHANGED <<paper, section_arg, section_summary, procVars>>

SummarizeSectionCall ==
  /\ sop = "init"
  /\ \E r \in SummarizeSection(section_arg[1], section_arg[2], <<>>) :
       /\ section_summary' = r.value
       /\ calls' = r.calls
       /\ raised' = r.raised
  /\ sop' = "summarize_section"
  /\ UNCHANGED <<paper, summaries, section_arg, procVars>>

(***************************************************************************)
(* Specifications: a PdfProcessor on one document, and a PaperSummarizer.  *)
(***************************************************************************)
Init == ProcInit /\ SumInit

Next == ExtractText \/ IdentifySections \/ Process

Spec == Init /\ [][Next]_vars

\* the caller's arguments: a paper_content, or a section text and its name
SumSpecInit ==
  /\ ProcInit
  /\ pages = <<>>
  /\ \/ /\ paper \in [sections : InputSectionMaps, full_text : InputFullTexts]
        /\ section_arg = <<<<>>, <<>>>>
     \/ /\ paper = [sections |-> <<>>, full_text |-> <<>>]
        /\ section_arg \in SectionTexts \X {SectionNames[k] : k \in 1..Len(SectionNames)}
  /\ summaries = <<>>
  /\ section_summary = <<>>
  /\ calls = <<>>
  /\ raised = FALSE
  /\ sop = "init"

SumNext == GenerateFullSummary \/ SummarizeSectionCall

SumSpec == SumSpecInit /\ [][SumNext]_vars

(***************************************************************************)
(* Properties of identify_sections (specification Spec).                   *)
(***************************************************************************)
\* identify_sections has just returned
IdentifyDone == op \in {"identify_sections", "process"}

\* ... on a processor whose sections were still empty
FreshCall == IdentifyDone /\ fresh

TextLines == SplitLines(full_text)

\* what the two passes make of the current text on a fresh processor
PrimaryMap == PrimaryPass(full_text, <<>>).sections

FallbackMap == FallbackSections(full_text)

\* the returned map is the fallback's, not the primary one
FallbackReturned ==
  /\ DictItems(ret) # DictItems(PrimaryMap)
  /\ DictItems(ret) = DictItems(FallbackMap)

\* the lines of a text, trimmed, without the blank ones
RECURSIVE Flatten(_)
Flatten(ss) == IF ss = <<>> THEN <<>> ELSE ss[1] \o Flatten(Tail(ss))

KeptLines(lines) ==
  SelectSeq([i \in 1..Len(lines) |-> Strip(lines[i])], LAMBDA l : l # <<>>)

\* the lines of the section bodies, in the order of the map
BodyLines(d) ==
  KeptLines(Flatten([i \in 1..Len(d) |-> SplitLines(d[i][2])]))

\* the lines no pass took as a header: not the primary pass and, when the
\* fallback's map is the result, not the fallback pass either
NonHeaderLines ==
  LET hdr == {i \in 1..Len(TextLines) :
                \/ matched[i] # NoMatch
                \/ (FallbackReturned /\ IsPotentialSection(TextLines, i))}
  IN  KeptLines(SelectSeq([i \in 1..Len(TextLines) |->
                             IF i \in hdr THEN <<>> ELSE TextLines[i]],
                          LAMBDA l : TRUE))

\* C1: for a non-empty text, the section bodies in document order hold the
\* non-header lines of the text, each once and in order (up to the trimming
\* of the bodies)
C1_NoLineLostOrDuplicated ==
  (FreshCall /\ full_text # <<>>) => BodyLines(ret) = NonHeaderLines

\* C2: for a non-empty text the map returned on a fresh processor has a key
C2_AtLeastOneKey ==
  (FreshCall /\ full_text # <<>>) => Len(ret) >= 1

\* no line of the text was taken as a header by the primary pass
NoPrimaryHeader ==
  \A i \in 1..Len(TextLines) :
    /\ SectionPatternSearch(Strip(TextLines[i])) = NoMatch
    /\ ~AllCapsRule(TextLines[i])

WholeTextUnknown == << <<unknown, Strip(full_text)>> >>

\* C3 as stated: without a primary header the result is the single key
\* "unknown" holding the trimmed text, whatever the fallback pass finds
C3_Original ==
  (FreshCall /\ NoPrimaryHeader) => ret = WholeTextUnknown

\* C3 amended: without a primary header the result is the single key
\* "unknown" holding the trimmed text, unless the fallback pass builds a map
\* of two or more section names, which is then returned instead
C3_UnknownUnlessFallback ==
  (FreshCall /\ NoPrimaryHeader) =>
    IF Len(FallbackMap) >= 2
    THEN DictItems(ret) = DictItems(FallbackMap)
    ELSE ret = WholeTextUnknown

\* the fallback pass found a candidate and still the whole text came back
C3_Witness ==
  /\ FreshCall /\ NoPrimaryHeader
  /\ full_text # Strip(full_text)
  /\ Len(FallbackMap) = 1
  /\ ret = WholeTextUnknown

introduction == <<"i", "n", "t", "r", "o", "d", "u", "c", "t", "i", "o", "n">>

methodology == <<"m", "e", "t", "h", "o", "d", "o", "l", "o", "g", "y">>

\* the line is an ordinal prefix, the token, and a colon or nothing
OrdinalHeader(line, token, colon) ==
  \E n \in 1..Len(line) :
    /\ line[1] \in DigitSet
    /\ \A k \in 1..n : line[k] \in DigitSet \cup {".", " "}
    /\ Lower(SubSeq(line, n + 1, Len(line))) = token \o colon

\* the text is "2. Introduction", body lines, "3. Methodology:", more lines;
\* j is the line of the second header
C7_Shape(j) ==
  /\ j \in 3..(Len(TextLines) - 1)
  /\ OrdinalHeader(TextLines[1], introduction, <<>>)
  /\ OrdinalHeader(TextLines[j], methodology, <<":">>)
  /\ \A i \in (2..Len(TextLines)) \ {j} : matched[i] = NoMatch

C7_Expected(j) ==
  {<<introduction, Strip(JoinLines(SubSeq(TextLines, 2, j - 1)))>>,
   <<methodology, Strip(JoinLines(SubSeq(TextLines, j + 1, Len(TextLines))))>>}

AllCapsHeader(i) ==
  /\ IsUpper(Strip(TextLines[i]))
  /\ SectionPatternSearch(Strip(TextLines[i])) = NoMatch
  /\ LET low == Lower(TextLines[i])
     IN  \E k \in 1..Len(common_sections) : Contains(low, common_sections[k])

\* the tokens that occur in the line
TokensIn(line) ==
  LET low == Lower(line)
  IN  {k \in 1..Len(common_sections) : Contains(low, common_sections[k])}

\* C8 as stated: the name of an all-caps header is the first token, in
\* vocabulary order, that occurs anywhere in the line
C8_Original ==
  IdentifyDone =>
    \A i \in 1..Len(TextLines) :
      AllCapsHeader(i) =>
        matched[i] = common_sections[Least(TokensIn(TextLines[i]))]

\* C8 amended: the name of an all-caps header is the token that occurs
\* leftmost in the line, and among the tokens starting at that offset the
\* first in vocabulary order
C8_LeftmostToken ==
  IdentifyDone =>
    \A i \in 1..Len(TextLines) :
      AllCapsHeader(i) =>
        LET low == Lower(TextLines[i])
        IN  \E p \in 0..Len(low), k \in 1..Len(common_sections) :
              /\ matched[i] = common_sections[k]
              /\ OccursAt(low, p, common_sections[k])
              /\ \A j \in 1..(k - 1) : ~OccursAt(low, p, common_sections[j])
              /\ \A q \in 0..(p - 1), j \in 1..Len(common_sections) :
                   ~OccursAt(low, q, common_sections[j])

\* an all-caps header with a token later in the vocabulary standing first
C8_Witness ==
  /\ IdentifyDone
  /\ \E i \in 1..Len(TextLines) :
       /\ AllCapsHeader(i)
       /\ Cardinality(TokensIn(TextLines[i])) >= 2
       /\ matched[i] # common_sections[Least(TokensIn(TextLines[i]))]

\* the candidate header begins with an ordinal or a Roman numeral
HasNumberPrefix(h) ==
  \/ (h # <<>> /\ h[1] \in DigitSet)
  \/ LET r == MaxRun(h, 0, RomanSet)
     IN  r >= 1 /\ (r = Len(h) \/ h[r + 1] \in SpaceSet \cup {"."})

\* C9: when the fallback's map is returned, a candidate header without an
\* ordinal or Roman-numeral prefix is a key in full, lower-cased, and no key
\* is the empty string
C9_FallbackNames ==
  (FreshCall /\ FallbackReturned) =>
    /\ \A i \in 1..Len(TextLines) :
         (IsPotentialSection(TextLines, i) /\ ~HasNumberPrefix(Strip(TextLines[i])))
           => Lower(Strip(TextLines[i])) \in DictKeys(ret)
    /\ <<>> \notin DictKeys(ret)

\* C10: identify_sections returns what a fresh processor holding the same
\* full_text returns
C10_DependsOnlyOnText ==
  IdentifyDone =>
    DictItems(ret) = DictItems(IdentifySectionsOn(full_text, <<>>).sections)

(***************************************************************************)
(* Properties of PaperSummarizer (specification SumSpec).                  *)
(***************************************************************************)
FullSummaryDone == sop = "generate_full_summary"

\* C5: the map generate_full_summary returns has the key "overview" and no
\* key that is "unknown", "references" or "acknowledgments" in any casing
C5_OverviewAndNoExcludedKey ==
  FullSummaryDone =>
    /\ overview \in DictKeys(summaries)
    /\ \A k \in DictKeys(summaries) : Lower(k) \notin ExcludedNames

\* an excluded name in another casing came with a text, and a section was
\* summarized
C5_Witness ==
  /\ FullSummaryDone
  /\ \E i \in 1..Len(paper.sections) :
       /\ paper.sections[i][1] \notin ExcludedNames
       /\ Lower(paper.sections[i][1]) \in ExcludedNames
       /\ paper.sections[i][2] # <<>>
  /\ Len(summaries) >= 2
  /\ \A i \in 1..Len(calls) : calls[i].outcome = "text"

\* the sections a request is due for: not excluded, with a text
DueSections ==
  SelectSeq(paper.sections,
            LAMBDA item : Lower(item[1]) \notin ExcludedNames /\ item[2] # <<>>)

\* every due section was requested, in order, and then the overview,
\* whatever the earlier requests came to
AllRequestsSent ==
  /\ Len(calls) = Len(DueSections) + 1
  /\ \A i \in 1..Len(DueSections) :
       /\ calls[i].prompt.kind = "section"
       /\ calls[i].prompt.name = DueSections[i][1]
  /\ calls[Len(calls)].prompt.kind = "overview"

\* a failed request made summarize_section return the empty string
FailedSectionIsEmpty ==
  (sop = "summarize_section" /\ calls # <<>> /\ calls[1].outcome \in Failures)
    => section_summary = <<>>

\* C6 as stated: no failure leaves the methods, every due request is still
\* sent, a failed section is absent from the map (a failed overview is the
\* empty string) and a section answered with a text is present
C6_Original ==
  /\ ~raised
  /\ FailedSectionIsEmpty
  /\ FullSummaryDone =>
       /\ AllRequestsSent
       /\ \A i \in 1..Len(DueSections) :
            /\ calls[i].outcome \in Failures =>
                 \/ DueSections[i][1] \notin DictKeys(summaries)
                 \/ (DueSections[i][1] = overview /\ DictGet(summaries, overview) = <<>>)
            /\ calls[i].outcome = "text" => DueSections[i][1] \in DictKeys(summaries)
       /\ calls[Len(calls)].outcome \in Failures =>
            (overview \in DictKeys(summaries) /\ DictGet(summaries, overview) = <<>>)

\* C6 amended: no failure leaves the methods, every due request is still
\* sent, a failed section not named "overview" is absent from the map, a
\* section answered with a text is present, and the key "overview" holds the
\* answer to the overview request (the empty string if it failed), also when
\* a section of that name was summarized
C6_FailuresAreLocal ==
  /\ ~raised
  /\ FailedSectionIsEmpty
  /\ FullSummaryDone =>
       /\ AllRequestsSent
       /\ \A i \in 1..Len(DueSections) :
            /\ (calls[i].outcome \in Failures /\ DueSections[i][1] # overview)
                 => DueSections[i][1] \notin DictKeys(summaries)
            /\ calls[i].outcome = "text" =>
                 /\ DueSections[i][1] \in DictKeys(summaries)
                 /\ DueSections[i][1] # overview
                      => DictGet(summaries, DueSections[i][1]) = ResponseText
       /\ overview \in DictKeys(summaries)
       /\ DictGet(summaries, overview) =
            IF calls[Len(calls)].outcome = "text" THEN ResponseText ELSE <<>>

\* a section's request failed, the next section's succeeded, the overview's
\* failed
C6_Witness ==
  /\ FullSummaryDone
  /\ Len(calls) = 3
  /\ calls[1].outcome \in Failures
  /\ calls[2].outcome = "text"
  /\ calls[3].outcome \in Failures
  /\ calls[1].prompt.name \notin DictKeys(summaries)
  /\ calls[2].prompt.name \in DictKeys(summaries)

============================================================================
